---- MODULE Spec2Model ----
(***************************************************************************)
(* The Project Connect O&M notebook (project-connect-o-and-m.ipynb) as a   *)
(* state machine.                                                          *)
(*                                                                         *)
(* A table (pandas DataFrame) is a sequence of rows; a row is a function   *)
(* from column names to values.  A float64 value is an exact non-negative  *)
(* rational [n, d] in lowest terms, with d = 0 for the two non-finite      *)
(* values the notebook's divisions can produce: inf = 1/0 and nan = 0/0.   *)
(* All quantities of the notebook (hours, expenses, costs) are >= 0.       *)
(*                                                                         *)
(* pc, ns, heap, stdout and err are the run of the notebook: the next      *)
(* statement group, the kernel's global names, the tables those names      *)
(* refer to (by object id, so that rebinding a name and changing a table   *)
(* in place are different things), what was printed, and the exception     *)
(* that stopped the run.  call and ret hold one application of a single    *)
(* operation of the notebook to inputs drawn from bounded sets.            *)
(***************************************************************************)
EXTENDS Integers, Sequences, FiniteSets, TLC

VARIABLES pc, ns, heap, stdout, err, call, ret

vars == <<pc, ns, heap, stdout, err, call, ret>>

(***************************************************************************)
(* Bounds of the model.                                                    *)
(***************************************************************************)
MaxRows == 2
MaxServiceRows == 1
MaxAvgRows == 3
MaxNum == 2
MaxDen == 5
MaxHours == 2
MaxValue == 3
MaxRatePct == 3
MaxYears == 3
MaxScale == 2
MaxX == 1
MaxObs == 3

(***************************************************************************)
(* float64 arithmetic, on exact rationals                                  *)
(***************************************************************************)
RECURSIVE GCD(_, _)
GCD(a, b) == IF b = 0 THEN a ELSE GCD(b, a % b)

NaN == [n |-> 0, d |-> 0]
Inf == [n |-> 1, d |-> 0]

IsFinite(x) == x.d # 0
IsNaN(x) == x.d = 0 /\ x.n = 0

\* numpy's a / b on non-negative numbers: x/0 is inf, 0/0 is nan; no exception.
TrueDiv(a, b) ==
    IF b = 0 THEN (IF a = 0 THEN NaN ELSE Inf)
    ELSE LET g == GCD(a, b) IN [n |-> a \div g, d |-> b \div g]

FromInt(k) == [n |-> k, d |-> 1]

FAdd(x, y) ==
    IF IsNaN(x) \/ IsNaN(y) THEN NaN
    ELSE IF ~IsFinite(x) \/ ~IsFinite(y) THEN Inf
    ELSE TrueDiv(x.n * y.d + y.n * x.d, x.d * y.d)

\* x - y; the notebook only subtracts where the difference is >= 0 or the
\* operands are non-finite (inf - inf = nan).
FSub(x, y) ==
    IF IsNaN(x) \/ IsNaN(y) THEN NaN
    ELSE IF ~IsFinite(y) THEN NaN
    ELSE IF ~IsFinite(x) THEN Inf
    ELSE TrueDiv(x.n * y.d - y.n * x.d, x.d * y.d)

FMul(x, y) ==
    IF IsNaN(x) \/ IsNaN(y) THEN NaN
    ELSE IF ~IsFinite(x) \/ ~IsFinite(y)
         THEN (IF x.n = 0 \/ y.n = 0 THEN NaN ELSE Inf)
    ELSE TrueDiv(x.n * y.n, x.d * y.d)

FDiv(x, y) ==
    IF IsNaN(x) \/ IsNaN(y) THEN NaN
    ELSE IF ~IsFinite(y) THEN (IF IsFinite(x) THEN FromInt(0) ELSE NaN)
    ELSE IF ~IsFinite(x) THEN Inf
    ELSE TrueDiv(x.n * y.d, x.d * y.n)

RECURSIVE FSum(_)
FSum(s) == IF s = <<>> THEN FromInt(0) ELSE FAdd(s[1], FSum(Tail(s)))

(***************************************************************************)
(* Exact arithmetic for 1.03 ** 11, which does not fit a machine integer:  *)
(* a natural number is its sequence of base-10000 digits, lowest first,    *)
(* without leading zeros; a value is a quotient [n, d] of two of them.     *)
(***************************************************************************)
RECURSIVE BigCarry(_, _, _)
BigCarry(b, k, carry) ==
    IF b = <<>>
    THEN (IF carry = 0 THEN <<>> ELSE <<carry % 10000>> \o BigCarry(<<>>, k, carry \div 10000))
    ELSE LET t == b[1] * k + carry
         IN  <<t % 10000>> \o BigCarry(Tail(b), k, t \div 10000)

BigFromInt(k) == BigCarry(<<>>, 0, k)

\* b * k, for 0 <= k < 200000
BigMul(b, k) == IF k = 0 THEN <<>> ELSE BigCarry(b, k, 0)

\* b * k^e
RECURSIVE BigMulPow(_, _, _)
BigMulPow(b, k, e) == IF e = 0 THEN b ELSE BigMulPow(BigMul(b, k), k, e - 1)

RECURSIVE BigAddCarry(_, _, _)
BigAddCarry(a, b, carry) ==
    IF a = <<>> /\ b = <<>> THEN (IF carry = 0 THEN <<>> ELSE <<carry>>)
    ELSE LET x == IF a = <<>> THEN 0 ELSE a[1]
             y == IF b = <<>> THEN 0 ELSE b[1]
             t == x + y + carry
         IN  <<t % 10000>> \o BigAddCarry(IF a = <<>> THEN <<>> ELSE Tail(a),
                                          IF b = <<>> THEN <<>> ELSE Tail(b), t \div 10000)

BigAdd(a, b) == BigAddCarry(a, b, 0)

\* a <= b
RECURSIVE BigLeqFrom(_, _, _)
BigLeqFrom(a, b, i) ==
    IF i = 0 THEN TRUE
    ELSE IF a[i] # b[i] THEN a[i] < b[i]
    ELSE BigLeqFrom(a, b, i - 1)

BigLeq(a, b) ==
    IF Len(a) # Len(b) THEN Len(a) < Len(b) ELSE BigLeqFrom(a, b, Len(a))

ToBig(x) == [n |-> BigFromInt(x.n), d |-> BigFromInt(x.d)]

\* the exact value x equals the small rational f
BigEqualsFrac(x, f) == BigMul(x.n, f.d) = BigMul(x.d, f.n)

\* '{:.2f}'.format(x) as a number of cents: the nearest hundredth of a finite
\* x below 1310.72, found by bisection on c with c * 2d <= 200n + d.
RECURSIVE CentsFrom(_, _, _)
CentsFrom(x, c, bit) ==
    IF bit = 0 THEN c
    ELSE IF BigLeq(BigMul(BigMul(x.d, 2), c + bit), BigAdd(BigMul(x.n, 200), x.d))
         THEN CentsFrom(x, c + bit, bit \div 2)
         ELSE CentsFrom(x, c, bit \div 2)

Format2f(x) == CentsFrom(x, 0, 65536)

\* value * (1 + rate) ** years, the rate in percent: the forward direction,
\* which the notebook itself never computes.
InflateForward(value, ratePct, years) ==
    [n |-> BigMulPow(value.n, 100 + ratePct, years), d |-> BigMulPow(value.d, 100, years)]

\* value / ((1 + rate) ** years), as in value / (1.03 ** 11)
DeflateOneYearShort(value, ratePct, years) ==
    [n |-> BigMulPow(value.n, 100, years),
     d |-> BigMulPow(value.d, 100 + ratePct, IF years = 0 THEN 0 ELSE years - 1)]

Deflate(value, ratePct, years) ==
    [n |-> BigMulPow(value.n, 100, years), d |-> BigMulPow(value.d, 100 + ratePct, years)]

\* inflate(value, annual_rate, years) with its explicit direction
inflate(value, ratePct, years, direction) ==
    IF direction = "inflate" THEN InflateForward(value, ratePct, years)
    ELSE Deflate(value, ratePct, years)

\* The figures of the Orange Line memo and of the notebook's deflation.
ElevatedCost2028 == 30249000
ElevatedHours2028 == 173000
SurfaceCost2028 == 24399000
SurfaceHours2028 == 148000
AnnualRatePct == 3
YearsToBase == 11

(***************************************************************************)
(* DataFrame operations                                                    *)
(***************************************************************************)
Column(df, col) == [i \in 1..Len(df) |-> df[i][col]]

RECURSIVE SumInt(_)
SumInt(s) == IF s = <<>> THEN 0 ELSE s[1] + SumInt(Tail(s))

\* df[col].sum()
ColumnSum(df, col) == SumInt(Column(df, col))

\* df.query("Mode==mode & `Mode Status` == status"): the rows, in order, for
\* which both equalities hold; no row is an empty table, not an error.
QueryModeStatusOr(df, mode, status) ==
    SelectSeq(df, LAMBDA r : r["Mode"] = mode \/ r["Mode Status"] = status)

QueryModeStatus(df, mode, status) ==
    SelectSeq(df, LAMBDA r : r["Mode"] = mode /\ r["Mode Status"] = status)

\* df.query("Mode==mode")
QueryMode(df, mode) == SelectSeq(df, LAMBDA r : r["Mode"] = mode)

\* df.rename(columns=m): a new table; names that are not columns are ignored.
RenameRow(r, m) ==
    LET nn(k) == IF k \in DOMAIN m THEN m[k] ELSE k
    IN  [c \in {nn(k) : k \in DOMAIN r} |-> r[CHOOSE k \in DOMAIN r : nn(k) = c]]

Rename(df, m) == [i \in 1..Len(df) |-> RenameRow(df[i], m)]

\* df[[cols]].copy()
Project(df, cols) == [i \in 1..Len(df) |-> [c \in cols |-> df[i][c]]]

KeyOf(r, on) == [c \in on |-> r[c]]

RECURSIVE Flatten(_)
Flatten(ss) == IF ss = <<>> THEN <<>> ELSE ss[1] \o Flatten(Tail(ss))

MatchesOf(l, right, on) ==
    LET m == SelectSeq(right, LAMBDA r : KeyOf(r, on) = KeyOf(l, on))
    IN  [j \in 1..Len(m) |-> l @@ m[j]]

MatchesOfFirstKey(l, right, on) ==
    LET m == SelectSeq(right, LAMBDA r : r["NTD ID"] = l["NTD ID"])
    IN  [j \in 1..Len(m) |-> l @@ m[j]]

\* pd.merge(left, right, on=on): how='inner' and validate=None are the
\* defaults, so each left row is paired with every right row of the same
\* key, in left order, and nothing is raised on a repeated key.
MergeFirstKey(left, right, on) ==
    Flatten([i \in 1..Len(left) |-> MatchesOfFirstKey(left[i], right, on)])

Merge(left, right, on) ==
    Flatten([i \in 1..Len(left) |-> MatchesOf(left[i], right, on)])

\* df[new] = f(row), row by row, on the table itself: column new is added
\* (or replaced); every other column and the rows stay.
AssignColumn(df, new, values) ==
    [i \in 1..Len(df) |-> (new :> values[i]) @@ df[i]]

\* a variant that also clears the numerator column it read
DeriveRatioClearing(df, num, den, new) ==
    AssignColumn(AssignColumn(df, new, [i \in 1..Len(df) |-> TrueDiv(df[i][num], df[i][den])]),
                 num, [i \in 1..Len(df) |-> 0])

\* df[new] = df[num] / df[den]
DeriveRatio(df, num, den, new) ==
    AssignColumn(df, new, [i \in 1..Len(df) |-> TrueDiv(df[i][num], df[i][den])])

\* the mean of the per-row ratios, which the notebook does not use
MeanOfRatios(df, num, den) ==
    FDiv(FSum([i \in 1..Len(df) |-> TrueDiv(df[i][num], df[i][den])]),
         FromInt(Len(df)))

\* df[num].sum() / df[den].sum()
\* the numerators' sum over the number of rows
SumOverCount(df, num, den) == TrueDiv(ColumnSum(df, num), Len(df))

WeightedAverage(df, num, den) ==
    TrueDiv(ColumnSum(df, num), ColumnSum(df, den))

\* the variance over the square of the count instead of the square of the
\* mean: a dispersion that is not scale-free
VarianceOfColumn(a) ==
    LET n == Len(a)
        S == FSum(a)
        Q == FSum([i \in 1..n |-> FMul(a[i], a[i])])
    IN  IF n = 0 \/ \E i \in 1..n : ~IsFinite(a[i]) THEN NaN
        ELSE FDiv(FSub(FMul(FromInt(n), Q), FMul(S, S)), FromInt(n * n))

\* scipy.stats.variation(a) = a.std() / a.mean(), population standard
\* deviation.  The value returned here is its square, var / mean^2
\* = (n * sum(x^2) - sum(x)^2) / sum(x)^2, which is rational; on the
\* non-negative columns of the notebook the square loses nothing.
\* Nothing is raised: an empty column, a column of zeros and a column with a
\* non-finite entry give nan, a single non-zero entry gives 0.
variation(a) ==
    LET n == Len(a)
        S == FSum(a)
        Q == FSum([i \in 1..n |-> FMul(a[i], a[i])])
    IN  IF n = 0 \/ \E i \in 1..n : ~IsFinite(a[i]) THEN NaN
        ELSE FDiv(FSub(FMul(FromInt(n), Q), FMul(S, S)), FMul(S, S))

(***************************************************************************)
(* Bounded inputs                                                          *)
(***************************************************************************)
RECURSIVE SeqsUpTo(_, _)
SeqsUpTo(S, k) ==
    IF k = 0 THEN {<<>>}
    ELSE LET shorter == SeqsUpTo(S, k - 1)
         IN  shorter \cup {Append(s, x) : s \in {t \in shorter : Len(t) = k - 1}, x \in S}

Modes == {"RB", "LR"}
Statuses == {"Operating", "Inactive"}
Services == {"DO", "PT"}
AgencyIds == {1, 2}

CityOf(id) == IF id = 1 THEN "Dallas" ELSE "Newark"
NameOf(id) == IF id = 1 THEN "DART" ELSE "NJ Transit"

\* A row of ntd_vrh_2017.csv / ntd_total_opex_2017.csv: one agency, mode and
\* type of service, with the 2017 figure.
NtdRow(id, svc, mode, status, v) ==
    ("NTD ID" :> id) @@ ("Agency Name" :> NameOf(id)) @@ ("City" :> CityOf(id))
    @@ ("Mode" :> mode) @@ ("Service" :> svc) @@ ("Mode Status" :> status)
    @@ ("2017" :> v)

Idle ==
    /\ pc = "idle"
    /\ ns = <<>>
    /\ heap = <<>>
    /\ stdout = <<>>
    /\ err = "none"

Return(v) == [done |-> TRUE, raised |-> "none", val |-> v]

runVars == <<pc, ns, heap, stdout, err>>

(***************************************************************************)
(* One application of the notebook's filter (lines 142, 144, 229, 231)     *)
(***************************************************************************)
QueryRows ==
    {NtdRow(id, "DO", m, s, 1) : id \in AgencyIds, m \in Modes \cup {"MB"}, s \in Statuses}

InitQuery ==
    /\ Idle
    /\ call \in {[fn |-> "query", df |-> t, mode |-> m, status |-> "Operating"] :
                    t \in SeqsUpTo(QueryRows, MaxRows), m \in Modes}
    /\ ret = [done |-> FALSE]

ApplyQuery ==
    /\ call.fn = "query"
    /\ ~ret.done
    /\ ret' = Return(QueryModeStatus(call.df, call.mode, call.status))
    /\ UNCHANGED <<call, runVars>>

SpecQuery == InitQuery /\ [][ApplyQuery]_vars

(***************************************************************************)
(* One application of the notebook's join (lines 147, 234, 339)            *)
(***************************************************************************)
JoinKeys == {"NTD ID", "Service"}

LeftRows ==
    {("NTD ID" :> id) @@ ("Service" :> svc) @@ ("City" :> CityOf(id)) @@ ("2017 VRH" :> MaxHours) :
        id \in AgencyIds, svc \in Services}

RightRows ==
    {("NTD ID" :> id) @@ ("Service" :> svc) @@ ("2017 OPEX" :> x) :
        id \in AgencyIds, svc \in Services, x \in 1..MaxHours}

InitMerge ==
    /\ Idle
    /\ call \in {[fn |-> "merge", left |-> l, right |-> r] :
                    l \in SeqsUpTo(LeftRows, MaxRows), r \in SeqsUpTo(RightRows, MaxRows)}
    /\ ret = [done |-> FALSE]

ApplyMerge ==
    /\ call.fn = "merge"
    /\ ~ret.done
    /\ ret' = Return(Merge(call.left, call.right, JoinKeys))
    /\ UNCHANGED <<call, runVars>>

SpecMerge == InitMerge /\ [][ApplyMerge]_vars

(***************************************************************************)
(* One application of the notebook's ratio column (lines 148, 235)         *)
(***************************************************************************)
RatioRows ==
    {("NTD ID" :> 1) @@ ("2017 OPEX" :> x) @@ ("2017 VRH" :> h) :
        x \in 0..MaxHours, h \in 0..MaxHours}

InitDerive ==
    /\ Idle
    /\ call \in {[fn |-> "derive_ratio", df |-> t] : t \in SeqsUpTo(RatioRows, MaxRows)}
    /\ ret = [done |-> FALSE]

ApplyDerive ==
    /\ call.fn = "derive_ratio"
    /\ ~ret.done
    /\ ret' = Return(DeriveRatio(call.df, "2017 OPEX", "2017 VRH", "Revenue Hour Cost"))
    /\ UNCHANGED <<call, runVars>>

SpecDerive == InitDerive /\ [][ApplyDerive]_vars

(***************************************************************************)
(* One application of the notebook's average (lines 169, 245, 270)         *)
(***************************************************************************)
AvgRows ==
    {("2017 OPEX" :> x) @@ ("2017 VRH" :> h) : x \in 0..MaxNum, h \in 1..MaxDen}

InitAverage ==
    /\ Idle
    /\ call \in {[fn |-> "weighted_average", df |-> t] : t \in SeqsUpTo(AvgRows, MaxAvgRows)}
    /\ ret = [done |-> FALSE]

ApplyAverage ==
    /\ call.fn = "weighted_average"
    /\ ~ret.done
    /\ ret' = Return(WeightedAverage(call.df, "2017 OPEX", "2017 VRH"))
    /\ UNCHANGED <<call, runVars>>

SpecAverage == InitAverage /\ [][ApplyAverage]_vars

(***************************************************************************)
(* One application of scipy's variation (lines 271, 272)                   *)
(***************************************************************************)
CostValues == {TrueDiv(x, h) : x \in 0..MaxHours, h \in 1..MaxHours}

InitVariation ==
    /\ Idle
    /\ call \in {[fn |-> "variation", a |-> s] : s \in SeqsUpTo(CostValues, MaxAvgRows)}
    /\ ret = [done |-> FALSE]

ApplyVariation ==
    /\ call.fn = "variation"
    /\ ~ret.done
    /\ ret' = Return(variation(call.a))
    /\ UNCHANGED <<call, runVars>>

SpecVariation == InitVariation /\ [][ApplyVariation]_vars

(***************************************************************************)
(* variation of a column and of the same column in another unit of         *)
(* measure (lines 271, 272)                                                *)
(***************************************************************************)
ScaleFactors == {TrueDiv(p, q) : p \in 1..MaxScale, q \in 1..MaxScale}

Scaled(k, a) == [i \in 1..Len(a) |-> FMul(k, a[i])]

InitScaling ==
    /\ Idle
    /\ call \in {[fn |-> "variation_scaled", a |-> s, k |-> k] :
                    s \in SeqsUpTo(CostValues, MaxAvgRows), k \in ScaleFactors}
    /\ ret = [done |-> FALSE]

ApplyVariationOfColumn ==
    /\ call.fn = "variation_scaled"
    /\ ~ret.done
    /\ ret' = Return(variation(call.a))
    /\ UNCHANGED <<call, runVars>>

ApplyVariationOfScaled ==
    /\ call.fn = "variation_scaled"
    /\ ret.done
    /\ "scaled" \notin DOMAIN ret
    /\ ret' = ("scaled" :> variation(Scaled(call.k, call.a))) @@ ret
    /\ UNCHANGED <<call, runVars>>

SpecScaling == InitScaling /\ [][ApplyVariationOfColumn \/ ApplyVariationOfScaled]_vars

(***************************************************************************)
(* Inflation and deflation (lines 105, 106), there and back                *)
(***************************************************************************)
Opposite(direction) == IF direction = "inflate" THEN "deflate" ELSE "inflate"

InflateValues ==
    {FromInt(v) : v \in 1..MaxValue}
        \cup {TrueDiv(ElevatedCost2028, ElevatedHours2028), TrueDiv(SurfaceCost2028, SurfaceHours2028)}

InitInflate ==
    /\ Idle
    /\ call \in {[fn |-> "inflate", value |-> v, rate |-> r, years |-> y, direction |-> d] :
                    v \in InflateValues, r \in 1..MaxRatePct,
                    y \in (0..MaxYears) \cup {YearsToBase}, d \in {"inflate", "deflate"}}
    /\ ret = [done |-> FALSE]

ApplyInflate ==
    /\ call.fn = "inflate"
    /\ ~ret.done
    /\ ret' = Return(inflate(ToBig(call.value), call.rate, call.years, call.direction))
    /\ UNCHANGED <<call, runVars>>

ApplyInflateBack ==
    /\ call.fn = "inflate"
    /\ ret.done
    /\ "back" \notin DOMAIN ret
    /\ ret' = ("back" :> inflate(ret.val, call.rate, call.years, Opposite(call.direction))) @@ ret
    /\ UNCHANGED <<call, runVars>>

SpecInflate == InitInflate /\ [][ApplyInflate \/ ApplyInflateBack]_vars

(***************************************************************************)
(* The run of the notebook, cell by cell.                                  *)
(*                                                                         *)
(* A name of the kernel is bound in ns either to a number or to the id of  *)
(* a table in heap.  A statement that builds a table (query, rename,       *)
(* column selection, copy, merge, drop, boolean indexing) appends a new    *)
(* object; an assignment df[col] = ... changes the object itself.  An      *)
(* uncaught exception stops the run: nothing after it is executed.         *)
(***************************************************************************)
Obj(name) == heap[ns[name]]

Halt(exception) ==
    /\ err' = exception
    /\ pc' = "halted"

\* What print() and a cell's last expression leave on the page.
Line(text, value) == [text |-> text, value |-> value]

\* '{:.2f}'.format(x) of a float64
Format2fFloat(x) ==
    IF IsNaN(x) THEN [kind |-> "nan", cents |-> 0]
    ELSE IF ~IsFinite(x) THEN [kind |-> "inf", cents |-> 0]
    ELSE [kind |-> "num", cents |-> (200 * x.n + x.d) \div (2 * x.d)]

Format2fBig(x) == [kind |-> "num", cents |-> Format2f(x)]

PeerCities == {"Houston", "Denver", "Salt Lake City", "Dallas", "Charlotte", "Phoenix"}

\* The three csv files.  A file that pd.read_csv cannot parse has ok = FALSE.
VrhFileRows == {NtdRow(1, "DO", m, "Operating", h) : m \in Modes, h \in {0, MaxHours}}

OpexFileRows == {NtdRow(1, "DO", m, st, MaxNum) : m \in Modes, st \in Statuses}

ServiceRow(id, svc, mode, train, vehicle) ==
    ("NTD ID" :> FromInt(id)) @@ ("Name" :> NameOf(id)) @@ ("City" :> CityOf(id))
    @@ ("Mode" :> mode) @@ ("Type of Service" :> svc)
    @@ ("Train \nRevenue \nHours" :> train) @@ ("Vehicle \nRevenue \nHours" :> vehicle)


Unreadable == [ok |-> FALSE, rows |-> <<>>]

Files(rows, k) == {[ok |-> TRUE, rows |-> t] : t \in SeqsUpTo(rows, k)} \cup {Unreadable}

Init ==
    /\ pc = "cell4"
    /\ ns = <<>>
    /\ heap = <<>>
    /\ stdout = <<>>
    /\ err = "none"
    /\ call = [fn |-> "none"]
    /\ ret = [done |-> FALSE]

\* lines 86-89
Cell4 ==
    /\ pc = "cell4"
    /\ LET elevated == TrueDiv(ElevatedCost2028, ElevatedHours2028)
           surface == TrueDiv(SurfaceCost2028, SurfaceHours2028)
       IN  /\ ns' = ("brt_revenue_hour_28_elevated" :> elevated)
                    @@ ("brt_revenue_hour_28_surface" :> surface) @@ ns
           /\ stdout' = stdout \o
                <<Line("BRT Elevated Option Revenue Hour (2028)", Format2fFloat(elevated)),
                  Line("BRT Surface Option Revenue Hour (2028)", Format2fFloat(surface))>>
    /\ pc' = "cell6"
    /\ UNCHANGED <<heap, err, call, ret>>

\* lines 105-108
Cell6 ==
    /\ pc = "cell6"
    /\ LET elevated == Deflate(ToBig(ns["brt_revenue_hour_28_elevated"]), AnnualRatePct, YearsToBase)
           surface == Deflate(ToBig(ns["brt_revenue_hour_28_surface"]), AnnualRatePct, YearsToBase)
       IN  /\ ns' = ("brt_revenue_hour_17_elevated" :> elevated)
                    @@ ("brt_revenue_hour_17_surface" :> surface) @@ ns
           /\ stdout' = stdout \o
                <<Line("BRT Elevated Option Revenue Hour (2017)", Format2fBig(elevated)),
                  Line("BRT Surface Option Revenue Hour (2017)", Format2fBig(surface))>>
    /\ pc' = "load_vrh"
    /\ UNCHANGED <<heap, err, call, ret>>

\* pd.read_csv(file) bound to name: a parse error stops the run.
ReadCsv(file, name, next) ==
    IF file.ok
    THEN /\ heap' = Append(heap, file.rows)
         /\ ns' = (name :> Len(heap) + 1) @@ ns
         /\ pc' = next
         /\ UNCHANGED err
    ELSE /\ Halt("ParserError")
         /\ UNCHANGED <<heap, ns>>

\* line 140
LoadVrh ==
    /\ pc = "load_vrh"
    /\ \E f \in Files(VrhFileRows, MaxRows) : ReadCsv(f, "vehicle_revenue_hour_df", "load_opex")
    /\ UNCHANGED <<stdout, call, ret>>

\* line 141
LoadOpex ==
    /\ pc = "load_opex"
    /\ \E f \in Files(OpexFileRows, MaxRows) : ReadCsv(f, "opex_df", "filter_brt")
    /\ UNCHANGED <<stdout, call, ret>>

\* lines 142-146 and 229-233: query, rename, query, rename, column selection
FilterMode(mode, vrhName, opexName, bareName, next) ==
    LET q1 == QueryModeStatus(Obj("vehicle_revenue_hour_df"), mode, "Operating")
        r1 == Rename(q1, "2017" :> "2017 VRH")
        q2 == QueryModeStatus(Obj("opex_df"), mode, "Operating")
        r2 == Rename(q2, "2017" :> "2017 OPEX")
        bare == Project(r2, {"NTD ID", "Service", "2017 OPEX"})
        base == Len(heap)
    IN  /\ heap' = heap \o <<q1, r1, q2, r2, bare>>
        /\ ns' = (vrhName :> base + 2) @@ (opexName :> base + 4) @@ (bareName :> base + 5) @@ ns
        /\ pc' = next
        /\ UNCHANGED <<stdout, err, call, ret>>

\* lines 147 and 234
JoinMode(vrhName, bareName, dfName, next) ==
    /\ heap' = Append(heap, Merge(Obj(vrhName), Obj(bareName), JoinKeys))
    /\ ns' = (dfName :> Len(heap) + 1) @@ ns
    /\ pc' = next
    /\ UNCHANGED <<stdout, err, call, ret>>

\* lines 148-149 and 235-236: the ratio column is added to the merged table
\* itself, then the cell shows a selection of its columns.
DeriveMode(dfName, shown, next) ==
    /\ heap' = [heap EXCEPT ![ns[dfName]] =
                    DeriveRatio(@, "2017 OPEX", "2017 VRH", "Revenue Hour Cost")]
    /\ stdout' = Append(stdout, Line(dfName, Project(heap'[ns[dfName]], shown)))
    /\ pc' = next
    /\ UNCHANGED <<ns, err, call, ret>>

\* lines 169-170 and 245-246
AverageMode(dfName, avgName, text, next) ==
    LET avg == WeightedAverage(Obj(dfName), "2017 OPEX", "2017 VRH")
    IN  /\ ns' = (avgName :> avg) @@ ns
        /\ stdout' = Append(stdout, Line(text, Format2fFloat(avg)))
        /\ pc' = next
        /\ UNCHANGED <<heap, err, call, ret>>

FilterBrt ==
    /\ pc = "filter_brt"
    /\ FilterMode("RB", "brt_vehicle_revenue_hour_df", "brt_opex_df", "bare_brt_opex_df", "join_brt")

JoinBrt ==
    /\ pc = "join_brt"
    /\ JoinMode("brt_vehicle_revenue_hour_df", "bare_brt_opex_df", "brt_df", "derive_brt")

DeriveBrt ==
    /\ pc = "derive_brt"
    /\ DeriveMode("brt_df", {"Agency Name", "City", "2017 OPEX", "2017 VRH", "Revenue Hour Cost"},
                  "average_brt")

\* a run that goes from the BRT average straight to the LRT join
AverageBrtThenJoin ==
    /\ pc = "average_brt"
    /\ AverageMode("brt_df", "national_brt_revenue_hour_avg",
                   "National BRT revenue hour average (2017)", "join_lrt")

AverageBrt ==
    /\ pc = "average_brt"
    /\ AverageMode("brt_df", "national_brt_revenue_hour_avg",
                   "National BRT revenue hour average (2017)", "filter_lrt")

FilterLrt ==
    /\ pc = "filter_lrt"
    /\ FilterMode("LR", "lrt_vehicle_revenue_hour_df", "lrt_opex_df", "bare_lrt_opex_df", "join_lrt")

JoinLrt ==
    /\ pc = "join_lrt"
    /\ JoinMode("lrt_vehicle_revenue_hour_df", "bare_lrt_opex_df", "lrt_df", "derive_lrt")

DeriveLrt ==
    /\ pc = "derive_lrt"
    /\ DeriveMode("lrt_df",
                  {"Agency Name", "City", "Service", "2017 OPEX", "2017 VRH", "Revenue Hour Cost"},
                  "average_lrt")

AverageLrt ==
    /\ pc = "average_lrt"
    /\ AverageMode("lrt_df", "national_lrt_revenue_hour_avg",
                   "National LRT revenue hour average (2017)", "peer_lrt")

\* lines 268-276
PeerLrt ==
    /\ pc = "peer_lrt"
    /\ LET peer == SelectSeq(Obj("lrt_df"), LAMBDA r : r["City"] \in PeerCities)
           avg == WeightedAverage(peer, "2017 OPEX", "2017 VRH")
           nvar == variation(Column(Obj("lrt_df"), "Revenue Hour Cost"))
           pvar == variation(Column(peer, "Revenue Hour Cost"))
       IN  /\ heap' = Append(heap, peer)
           /\ ns' = ("peer_cities" :> PeerCities) @@ ("peer_lrt_df" :> Len(heap) + 1)
                    @@ ("peer_lrt_revenue_hour_avg" :> avg)
                    @@ ("national_lrt_variation" :> nvar) @@ ("peer_lrt_variation" :> pvar) @@ ns
           /\ stdout' = stdout \o
                <<Line("Peer city LRT revenue hour average (2017)", Format2fFloat(avg)),
                  Line("Peer city LRT revenue hour discount factor (2017)",
                       FDiv(avg, ns["national_lrt_revenue_hour_avg"])),
                  Line("National LRT revenue hour coefficient of variation", nvar),
                  Line("Peer city LRT revenue hour coefficient of variation", pvar)>>
    /\ pc' = "load_service"
    /\ UNCHANGED <<err, call, ret>>

\* A row without an agency id, as a totals line of the spreadsheet export has:
\* the id column is then read as float64 with a nan in it.
ServiceRowWithoutId ==
    ("NTD ID" :> NaN) @@ ("Name" :> "Total") @@ ("City" :> "")
    @@ ("Mode" :> "LR") @@ ("Type of Service" :> "DO")
    @@ ("Train \nRevenue \nHours" :> 1) @@ ("Vehicle \nRevenue \nHours" :> MaxHours)

\* Rows of ntd_service_2017.csv: agency 1's own light rail with and without
\* train hours, its bus rapid transit under the same id and type of service,
\* Newark's purchased light rail (the row the notebook drops), and the row
\* without an id.
ServiceFileRows ==
    {ServiceRow(1, "DO", "LR", t, MaxHours) : t \in {0, 1}}
        \cup {ServiceRow(1, "DO", "RB", 1, MaxHours), ServiceRow(2, "PT", "LR", 1, MaxHours),
              ServiceRowWithoutId}

\* line 330
LoadService ==
    /\ pc = "load_service"
    /\ \E f \in Files(ServiceFileRows, MaxServiceRows) :
          ReadCsv(f, "service_df", "filter_rail")
    /\ UNCHANGED <<stdout, call, ret>>

RailColumns ==
    ("Train \nRevenue \nHours" :> "Train Revenue Hrs")
    @@ ("Vehicle \nRevenue \nHours" :> "Vehicle Revenue Hrs")
    @@ ("Type of Service" :> "Service")

\* lines 331-335: query and copy, rename, drop of the Newark PT rows
FilterRail ==
    /\ pc = "filter_rail"
    /\ LET q == QueryMode(Obj("service_df"), "LR")
           r == Rename(q, RailColumns)
           d == SelectSeq(r, LAMBDA x : ~(x["Service"] = "PT" /\ x["City"] = "Newark"))
       IN  /\ heap' = heap \o <<q, q, r, d>>
           /\ ns' = ("rail_df" :> Len(heap) + 4) @@ ns
    /\ pc' = "derive_rail"
    /\ UNCHANGED <<stdout, err, call, ret>>

\* Series.astype(int) of a finite non-negative float: truncation
AsTypeInt(x) == x.n \div x.d

\* lines 336-338, all three on rail_df itself; astype(int) raises on nan,
\* after the two columns before it were added.
DeriveRail ==
    /\ pc = "derive_rail"
    /\ LET df == Obj("rail_df")
           rows == 1..Len(df)
           t1 == AssignColumn(df, "Extra Car Revenue Hrs",
                     [i \in rows |-> df[i]["Vehicle Revenue Hrs"] - df[i]["Train Revenue Hrs"]])
           t2 == AssignColumn(t1, "Load Factor",
                     [i \in rows |-> TrueDiv(df[i]["Vehicle Revenue Hrs"], df[i]["Train Revenue Hrs"])])
           t3 == AssignColumn(t2, "NTD ID", [i \in rows |-> AsTypeInt(df[i]["NTD ID"])])
       IN  IF \E i \in 1..Len(t2) : ~IsFinite(t2[i]["NTD ID"])
           THEN /\ heap' = [heap EXCEPT ![ns["rail_df"]] = t2]
                /\ Halt("ValueError")
           ELSE /\ heap' = [heap EXCEPT ![ns["rail_df"]] = t3]
                /\ pc' = "join_rail"
                /\ UNCHANGED err
    /\ UNCHANGED <<ns, stdout, call, ret>>

\* line 339
JoinRail ==
    /\ pc = "join_rail"
    /\ heap' = Append(heap, Merge(Obj("rail_df"), Obj("bare_lrt_opex_df"), JoinKeys))
    /\ ns' = ("rail_economics_df" :> Len(heap) + 1) @@ ns
    /\ pc' = "derive_economics"
    /\ UNCHANGED <<stdout, err, call, ret>>

\* x sorts before or with y: ascending, inf after every number, nan last
FloatLeq(x, y) ==
    IF IsNaN(y) THEN TRUE
    ELSE IF IsNaN(x) THEN FALSE
    ELSE IF ~IsFinite(y) THEN TRUE
    ELSE IF ~IsFinite(x) THEN FALSE
    ELSE x.n * y.d <= y.n * x.d

RECURSIVE InsertRow(_, _, _)
InsertRow(row, sorted, col) ==
    IF sorted = <<>> THEN <<row>>
    ELSE IF FloatLeq(sorted[1][col], row[col])
         THEN <<sorted[1]>> \o InsertRow(row, Tail(sorted), col)
         ELSE <<row>> \o sorted

\* df.sort_values(by=[col]): a new table
RECURSIVE SortValues(_, _)
SortValues(df, col) ==
    IF df = <<>> THEN <<>>
    ELSE InsertRow(df[Len(df)], SortValues(SubSeq(df, 1, Len(df) - 1), col), col)

EconomicsShown ==
    {"Name", "City", "Peer", "Service", "Train Revenue Hrs", "Vehicle Revenue Hrs",
     "Extra Car Revenue Hrs", "Train RevHr Opex", "Car RevHr Opex", "Load Factor"}

\* the two cost columns with their hours exchanged
DeriveEconomicsExchanged ==
    /\ pc = "derive_economics"
    /\ LET df == Obj("rail_economics_df")
           rows == 1..Len(df)
           t1 == AssignColumn(df, "Peer",
                     [i \in rows |-> IF df[i]["City"] \in PeerCities THEN 1 ELSE 0])
           t2 == AssignColumn(t1, "Train RevHr Opex",
                     [i \in rows |-> TrueDiv(df[i]["2017 OPEX"], df[i]["Vehicle Revenue Hrs"])])
           t3 == AssignColumn(t2, "Car RevHr Opex",
                     [i \in rows |-> TrueDiv(df[i]["2017 OPEX"], df[i]["Train Revenue Hrs"])])
       IN  /\ heap' = [heap EXCEPT ![ns["rail_economics_df"]] = t3]
           /\ stdout' = Append(stdout, Line("rail_economics_df",
                                            SortValues(Project(t3, EconomicsShown), "Load Factor")))
    /\ ns' = ("peer_cities" :> PeerCities) @@ ns
    /\ pc' = "correlate"
    /\ UNCHANGED <<err, call, ret>>

\* lines 340-344: three columns added to rail_economics_df itself
DeriveEconomics ==
    /\ pc = "derive_economics"
    /\ LET df == Obj("rail_economics_df")
           rows == 1..Len(df)
           t1 == AssignColumn(df, "Peer",
                     [i \in rows |-> IF df[i]["City"] \in PeerCities THEN 1 ELSE 0])
           t2 == AssignColumn(t1, "Train RevHr Opex",
                     [i \in rows |-> TrueDiv(df[i]["2017 OPEX"], df[i]["Train Revenue Hrs"])])
           t3 == AssignColumn(t2, "Car RevHr Opex",
                     [i \in rows |-> TrueDiv(df[i]["2017 OPEX"], df[i]["Vehicle Revenue Hrs"])])
       IN  /\ heap' = [heap EXCEPT ![ns["rail_economics_df"]] = t3]
           /\ stdout' = Append(stdout, Line("rail_economics_df",
                                            SortValues(Project(t3, EconomicsShown), "Load Factor")))
    /\ ns' = ("peer_cities" :> PeerCities) @@ ns
    /\ pc' = "correlate"
    /\ UNCHANGED <<err, call, ret>>

\* lines 364-371.  The correlation matrix and the fitted line are functions
\* of the two columns and are recorded as such.  polyfit raises on an empty
\* vector; on a non-finite entry its least-squares solver either fails to
\* converge (LinAlgError) or returns, depending on the LAPACK build.
Correlate ==
    /\ pc = "correlate"
    /\ LET corr == Project(Obj("rail_economics_df"), {"Car RevHr Opex", "Load Factor"})
           x == Column(Obj("rail_economics_df"), "Load Factor")
           y == Column(Obj("rail_economics_df"), "Car RevHr Opex")
           bound == ("corr_df" :> Len(heap) + 1) @@ ("vis_x" :> x) @@ ("vis_y" :> y) @@ ns
           finite == \A i \in 1..Len(x) : IsFinite(x[i]) /\ IsFinite(y[i])
       IN  /\ heap' = Append(heap, corr)
           /\ stdout' = Append(stdout, Line("corr_df.corr()", corr))
           /\ \/ /\ x = <<>>
                 /\ ns' = bound
                 /\ Halt("TypeError")
              \/ /\ x # <<>> /\ ~finite
                 /\ ns' = bound
                 /\ Halt("LinAlgError")
              \/ /\ x # <<>>
                 /\ ns' = ("b" :> [fit |-> "intercept", x |-> x, y |-> y])
                          @@ ("m" :> [fit |-> "slope", x |-> x, y |-> y]) @@ bound
                 /\ pc' = "regress"
                 /\ UNCHANGED err
    /\ UNCHANGED <<call, ret>>

\* a regression through the origin: no column of ones is added
AddConstantNever(exog) == exog

\* sm.add_constant(exog), has_constant='skip': a column "const" of ones comes
\* first, unless some column is already constant and not zero.
AddConstant(exog) ==
    IF \E c \in DOMAIN exog[1] :
          /\ \A i \in 1..Len(exog) : exog[i][c] = exog[1][c]
          /\ exog[1][c] # 0
    THEN exog
    ELSE [i \in 1..Len(exog) |-> ("const" :> 1) @@ exog[i]]

Regressors == {"Train Revenue Hrs", "Extra Car Revenue Hrs", "Peer"}

\* lines 391-396: no observation raises in the model's constructor
Regress ==
    /\ pc = "regress"
    /\ LET endog == Column(Obj("rail_economics_df"), "2017 OPEX")
           exog == Project(Obj("rail_economics_df"), Regressors)
       IN  IF endog = <<>>
           THEN /\ Halt("ValueError")
                /\ UNCHANGED <<ns, stdout>>
           ELSE /\ ns' = ("model" :> [endog |-> endog, exog |-> AddConstant(exog)])
                         @@ ("results" :> [nobs |-> Len(endog),
                                           params |-> DOMAIN AddConstant(exog)[1]])
                         @@ ns
                /\ stdout' = stdout \o <<Line("summary.tables[0]", Len(endog)),
                                        Line("summary.tables[1]", DOMAIN AddConstant(exog)[1])>>
                /\ pc' = "cost_table"
                /\ UNCHANGED err
    /\ UNCHANGED <<heap, call, ret>>

\* 284.15, 511.90, 284.15 and 117.56 dollars, in cents
VendorTrain17 == 28415
ReviewTrain17 == 51190
VendorCar17 == 28415
\* an added car priced like the first one
ReviewCarAsTrain == ReviewTrain17
ReviewCar17 == 11756

\* lines 432-441
CostTable ==
    /\ pc = "cost_table"
    /\ LET calculations ==
              [k \in 1..3 |->
                  ("Configuration" :> k)
                  @@ ("Project Connect" :> TrueDiv(VendorTrain17 + VendorCar17 * (k - 1), 100))
                  @@ ("Informatx" :> TrueDiv(ReviewTrain17 + ReviewCar17 * (k - 1), 100))]
       IN  /\ ns' = ("vendor_train_17" :> TrueDiv(VendorTrain17, 100))
                    @@ ("review_train_17" :> TrueDiv(ReviewTrain17, 100))
                    @@ ("vendor_car_17" :> TrueDiv(VendorCar17, 100))
                    @@ ("review_car_17" :> TrueDiv(ReviewCar17, 100))
                    @@ ("calculations" :> calculations) @@ ns
           /\ heap' = Append(heap, calculations)
           /\ stdout' = Append(stdout, Line("pd.DataFrame(data=calculations)", calculations))
    /\ pc' = "done"
    /\ UNCHANGED <<err, call, ret>>

Next ==
    \/ Cell4 \/ Cell6
    \/ LoadVrh \/ LoadOpex
    \/ FilterBrt \/ JoinBrt \/ DeriveBrt \/ AverageBrt
    \/ FilterLrt \/ JoinLrt \/ DeriveLrt \/ AverageLrt \/ PeerLrt
    \/ LoadService \/ FilterRail \/ DeriveRail \/ JoinRail \/ DeriveEconomics
    \/ Correlate \/ Regress \/ CostTable

Spec == Init /\ [][Next]_vars

\* The statement groups in the order of the notebook's cells.
StepOrder ==
    <<"cell4", "cell6", "load_vrh", "load_opex", "filter_brt", "join_brt", "derive_brt",
      "average_brt", "filter_lrt", "join_lrt", "derive_lrt", "average_lrt", "peer_lrt",
      "load_service", "filter_rail", "derive_rail", "join_rail", "derive_economics",
      "correlate", "regress", "cost_table", "done">>

Labels == {StepOrder[i] : i \in 1..Len(StepOrder)} \cup {"halted"}

\* The kernel runs the cells one after another until the last one has run or
\* an exception stops it: it never stays at a statement for ever.  (Every
\* statement group can run, or raise, in every state that reaches it, so
\* leaving the statement is a step of Next.)
Advance == pc \notin {"done", "halted"} /\ pc' \in Labels \ {pc}

FairSpec == Spec /\ WF_pc(Advance)

Position(label) == CHOOSE i \in 1..Len(StepOrder) : StepOrder[i] = label

\* What each statement group does, in the words of the pipeline.
KindOf ==
    [cell4 |-> "derive", cell6 |-> "derive",
     load_vrh |-> "load", load_opex |-> "load", filter_brt |-> "filter", join_brt |-> "join",
     derive_brt |-> "derive", average_brt |-> "aggregate",
     filter_lrt |-> "filter", join_lrt |-> "join", derive_lrt |-> "derive",
     average_lrt |-> "aggregate", peer_lrt |-> "compare",
     load_service |-> "load", filter_rail |-> "filter", derive_rail |-> "derive",
     join_rail |-> "join", derive_economics |-> "derive", correlate |-> "compare",
     regress |-> "regress", cost_table |-> "print", done |-> "print"]

\* The section of the notebook a statement group belongs to.
SectionOf ==
    [cell4 |-> "estimates", cell6 |-> "estimates",
     load_vrh |-> "brt", load_opex |-> "brt", filter_brt |-> "brt", join_brt |-> "brt",
     derive_brt |-> "brt", average_brt |-> "brt",
     filter_lrt |-> "lrt", join_lrt |-> "lrt", derive_lrt |-> "lrt",
     average_lrt |-> "lrt", peer_lrt |-> "lrt",
     load_service |-> "rail", filter_rail |-> "rail", derive_rail |-> "rail",
     join_rail |-> "rail", derive_economics |-> "rail", correlate |-> "rail",
     regress |-> "rail", cost_table |-> "rail", done |-> "rail"]

\* The names each statement group reads.
Consumes ==
    [cell4 |-> {}, cell6 |-> {"brt_revenue_hour_28_elevated", "brt_revenue_hour_28_surface"},
     load_vrh |-> {}, load_opex |-> {},
     filter_brt |-> {"vehicle_revenue_hour_df", "opex_df"},
     join_brt |-> {"brt_vehicle_revenue_hour_df", "bare_brt_opex_df"},
     derive_brt |-> {"brt_df"}, average_brt |-> {"brt_df"},
     filter_lrt |-> {"vehicle_revenue_hour_df", "opex_df"},
     join_lrt |-> {"lrt_vehicle_revenue_hour_df", "bare_lrt_opex_df"},
     derive_lrt |-> {"lrt_df"}, average_lrt |-> {"lrt_df"},
     peer_lrt |-> {"lrt_df", "national_lrt_revenue_hour_avg"},
     load_service |-> {}, filter_rail |-> {"service_df"}, derive_rail |-> {"rail_df"},
     join_rail |-> {"rail_df", "bare_lrt_opex_df"},
     derive_economics |-> {"rail_economics_df", "peer_cities"},
     correlate |-> {"rail_economics_df"}, regress |-> {"rail_economics_df"},
     cost_table |-> {}, done |-> {}]

(***************************************************************************)
(* sm.OLS(Y, X).fit() (lines 391-393).  fit() uses the Moore-Penrose       *)
(* pseudo-inverse of the design matrix X (method='pinv'), so it returns    *)
(* the least-squares solution of minimum norm whatever the rank of X is,   *)
(* and raises nothing for a singular X.  With A = X'X, c = X'Y and         *)
(* det(tI - A) = t^p + c1 t^(p-1) + ... + cp, the rank r of X is the       *)
(* largest k with ck # 0 and                                               *)
(*     pinv(X) Y = -(A^(r-1) + c1 A^(r-2) + ... + c(r-1) I) c / cr.        *)
(* The values are exact signed rationals; the design matrices here have    *)
(* at most three columns (the constant and two independent variables).     *)
(***************************************************************************)
Abs(k) == IF k < 0 THEN -k ELSE k
Sign(k) == IF k < 0 THEN -1 ELSE IF k = 0 THEN 0 ELSE 1

\* n / d as a float: lowest terms, d > 0; x/0 is +-inf and 0/0 is nan
Frac(n, d) ==
    IF d = 0 THEN [n |-> Sign(n), d |-> 0]
    ELSE LET g == GCD(Abs(n), Abs(d))
         IN  [n |-> Sign(d) * (n \div g), d |-> Abs(d) \div g]

\* the columns of the design matrix, in order
ExogNames(exog, independent) ==
    IF "const" \in DOMAIN exog[1] THEN <<"const">> \o independent ELSE independent

\* X'X
Gram(exog, names) ==
    [i \in 1..Len(names) |-> [j \in 1..Len(names) |->
        SumInt([r \in 1..Len(exog) |-> exog[r][names[i]] * exog[r][names[j]]])]]

\* X'Y
Moment(exog, names, endog) ==
    [i \in 1..Len(names) |-> SumInt([r \in 1..Len(exog) |-> exog[r][names[i]] * endog[r]])]

Trace(A) == SumInt([i \in 1..Len(A) |-> A[i][i]])

Minor2(A, i, j) == A[i][i] * A[j][j] - A[i][j] * A[j][i]

PrincipalMinors2(A) ==
    IF Len(A) = 2 THEN Minor2(A, 1, 2)
    ELSE IF Len(A) = 3 THEN Minor2(A, 1, 2) + Minor2(A, 1, 3) + Minor2(A, 2, 3)
    ELSE 0

Det3(A) ==
    IF Len(A) # 3 THEN 0
    ELSE   A[1][1] * (A[2][2] * A[3][3] - A[2][3] * A[3][2])
         - A[1][2] * (A[2][1] * A[3][3] - A[2][3] * A[3][1])
         + A[1][3] * (A[2][1] * A[3][2] - A[2][2] * A[3][1])

MatMul(A, B) ==
    [i \in 1..Len(A) |-> [j \in 1..Len(A) |-> SumInt([k \in 1..Len(A) |-> A[i][k] * B[k][j]])]]

Identity(p) == [i \in 1..p |-> [j \in 1..p |-> IF i = j THEN 1 ELSE 0]]

\* numpy.linalg.matrix_rank(X)
MatrixRank(A) ==
    IF Det3(A) # 0 THEN 3
    ELSE IF PrincipalMinors2(A) # 0 THEN 2
    ELSE IF Trace(A) # 0 THEN 1
    ELSE 0

\* pinv(X) Y as numerators over one denominator
PinvSolve(A, c) ==
    LET p == Len(A)
        r == MatrixRank(A)
        c1 == -Trace(A)
        c2 == PrincipalMinors2(A)
        c3 == -Det3(A)
        A2 == MatMul(A, A)
        I == Identity(p)
        M == [i \in 1..p |-> [j \in 1..p |->
                 IF r = 3 THEN A2[i][j] + c1 * A[i][j] + c2 * I[i][j]
                 ELSE IF r = 2 THEN A[i][j] + c1 * I[i][j]
                 ELSE IF r = 1 THEN I[i][j]
                 ELSE 0]]
        den == IF r = 3 THEN -c3 ELSE IF r = 2 THEN -c2 ELSE IF r = 1 THEN -c1 ELSE 1
    IN  [den |-> den,
         num |-> [i \in 1..p |-> SumInt([j \in 1..p |-> M[i][j] * c[j]])]]

\* sm.OLS(endog, exog).fit(): params, rsquared (centred: exog always holds a
\* constant column after add_constant), nobs and the rank of exog
OLSFit(endog, exog, independent) ==
    LET names == ExogNames(exog, independent)
        n == Len(endog)
        A == Gram(exog, names)
        c == Moment(exog, names, endog)
        b == PinvSolve(A, c)
        yy == SumInt([r \in 1..n |-> endog[r] * endog[r]])
        sy == SumInt(endog)
        ssr == Frac(b.den * yy - SumInt([i \in 1..Len(names) |-> b.num[i] * c[i]]), b.den)
        tss == Frac(n * yy - sy * sy, n)
    IN  [params |-> [nm \in {names[i] : i \in 1..Len(names)} |->
                        LET i == CHOOSE k \in 1..Len(names) : names[k] = nm
                        IN  Frac(b.num[i], b.den)],
         rsquared |-> Frac(tss.n * ssr.d - ssr.n * tss.d, tss.n * ssr.d),
         nobs |-> n,
         rank |-> MatrixRank(A)]

\* lines 391-393: Y = df[dependent]; X = sm.add_constant(df[independent]);
\* results = sm.OLS(Y, X).fit()
linear_regression(df, dependent, independent) ==
    LET Y == Column(df, dependent)
        X == AddConstant(Project(df, {independent[i] : i \in 1..Len(independent)}))
    IN  OLSFit(Y, X, independent)

(***************************************************************************)
(* One application of the regression to a table of observations            *)
(* y = 2 x1 + 5 x2 + 10 + noise                                            *)
(***************************************************************************)
Observation(x1, x2, noise) ==
    ("x1" :> x1) @@ ("x2" :> x2) @@ ("y" :> 2 * x1 + 5 * x2 + 10 + noise)

Noises == {0, 1}

Observations ==
    {Observation(x1, x2, e) : x1 \in 0..MaxX, x2 \in 0..MaxX, e \in Noises}

InitRegression ==
    /\ Idle
    /\ call \in {[fn |-> "linear_regression", df |-> t, dependent |-> "y",
                   independent |-> <<"x1", "x2">>] : t \in SeqsUpTo(Observations, MaxObs)}
    /\ ret = [done |-> FALSE]

\* no observation at all raises in the model's constructor; nothing else does
ApplyRegression ==
    /\ call.fn = "linear_regression"
    /\ ~ret.done
    /\ ret' = IF call.df = <<>>
              THEN [done |-> TRUE, raised |-> "ValueError"]
              ELSE Return(linear_regression(call.df, call.dependent, call.independent))
    /\ UNCHANGED <<call, runVars>>

SpecRegression == InitRegression /\ [][ApplyRegression]_vars

(***************************************************************************)
(* Properties                                                              *)
(***************************************************************************)
Count(r, t) == Cardinality({i \in 1..Len(t) : t[i] = r})
Rows(t) == {t[i] : i \in 1..Len(t)}
Keys(t) == {KeyOf(t[i], JoinKeys) : i \in 1..Len(t)}
Min(a, b) == IF a <= b THEN a ELSE b
UniqueKeys(t) == \A i, j \in 1..Len(t) : KeyOf(t[i], JoinKeys) = KeyOf(t[j], JoinKeys) => i = j

Averaged == ret.done /\ call.fn = "weighted_average" /\ Len(call.df) > 0
RatioOf(r) == TrueDiv(r["2017 OPEX"], r["2017 VRH"])
RatiosAllDiffer(t) == \A i, j \in 1..Len(t) : i # j => RatioOf(t[i]) # RatioOf(t[j])
DenominatorsAllDiffer(t) == \A i, j \in 1..Len(t) : i # j => t[i]["2017 VRH"] # t[j]["2017 VRH"]
IsSumOverSum(t, v) ==
    /\ IsFinite(v)
    /\ v.n * SumInt([i \in 1..Len(t) |-> t[i]["2017 VRH"]])
         = v.d * SumInt([i \in 1..Len(t) |-> t[i]["2017 OPEX"]])

\* C1 as stated: on every non-empty table the average is sum(OPEX)/sum(VRH),
\* and it differs from the mean of the per-row ratios whenever the rows have
\* different ratios and different denominators (here: even when all rows
\* differ pairwise in both).
C1_DiffersWheneverRowsDiffer ==
    Averaged =>
        /\ IsSumOverSum(call.df, ret.val)
        /\ (Len(call.df) >= 2 /\ RatiosAllDiffer(call.df) /\ DenominatorsAllDiffer(call.df))
              => ret.val # MeanOfRatios(call.df, "2017 OPEX", "2017 VRH")

\* C1 amended: on every non-empty table the average is sum(OPEX)/sum(VRH);
\* on a table of two rows it differs from the mean of the per-row ratios
\* exactly when the two rows differ in ratio and in denominator.
C1_SumOverSum ==
    Averaged =>
        /\ IsSumOverSum(call.df, ret.val)
        /\ Len(call.df) = 2 =>
              ((ret.val # MeanOfRatios(call.df, "2017 OPEX", "2017 VRH"))
                  <=> (RatiosAllDiffer(call.df) /\ DenominatorsAllDiffer(call.df)))

C1_Witness ==
    /\ Averaged
    /\ Len(call.df) = 2
    /\ RatiosAllDiffer(call.df) /\ DenominatorsAllDiffer(call.df)
    /\ ret.val # MeanOfRatios(call.df, "2017 OPEX", "2017 VRH")

\* C2: the join is an inner join: the key tuples of the result are exactly
\* those present in both inputs, and with unique keys on both sides the
\* result has at most min(|left|, |right|) rows.
C2_InnerJoin ==
    (ret.done /\ call.fn = "merge") =>
        /\ ret.raised = "none"
        /\ Keys(ret.val) = Keys(call.left) \cap Keys(call.right)
        /\ (UniqueKeys(call.left) /\ UniqueKeys(call.right))
              => Len(ret.val) <= Min(Len(call.left), Len(call.right))

C2_Witness ==
    /\ ret.done /\ call.fn = "merge"
    /\ UniqueKeys(call.left) /\ UniqueKeys(call.right)
    /\ Len(ret.val) = 1
    /\ Keys(call.left) \ Keys(call.right) # {}
    /\ Keys(call.right) \ Keys(call.left) # {}

\* C3: the join fails with JoinError whenever a key combination occurs more
\* than once in the left or in the right table, and never returns a table in
\* which a repeated key was matched to several rows.
C3_JoinErrorOnRepeatedKey ==
    (ret.done /\ call.fn = "merge" /\ (~UniqueKeys(call.left) \/ ~UniqueKeys(call.right)))
        => (ret.raised = "JoinError" /\ "val" \notin DOMAIN ret)

\* C4: the ratio column fails with DivisionByZeroError when any row's
\* denominator is 0 (no table with an infinite or undefined ratio is
\* produced); otherwise the table comes back with every column and row as it
\* was, plus the new column = numerator / denominator.
C4_DivisionByZeroError ==
    (ret.done /\ call.fn = "derive_ratio") =>
        IF \E i \in 1..Len(call.df) : call.df[i]["2017 VRH"] = 0
        THEN ret.raised = "DivisionByZeroError" /\ "val" \notin DOMAIN ret
        ELSE /\ ret.raised = "none"
             /\ Len(ret.val) = Len(call.df)
             /\ \A i \in 1..Len(call.df) :
                   /\ \A c \in DOMAIN call.df[i] : ret.val[i][c] = call.df[i][c]
                   /\ IsFinite(ret.val[i]["Revenue Hour Cost"])
                   /\ ret.val[i]["Revenue Hour Cost"].n * call.df[i]["2017 VRH"]
                        = ret.val[i]["Revenue Hour Cost"].d * call.df[i]["2017 OPEX"]

\* C5: the filter returns exactly the rows whose Mode and Mode Status both
\* equal the requested values, each as it was and as often as it occurred,
\* and an empty table (no error) when no row matches.
C5_FilterExact ==
    (ret.done /\ call.fn = "query") =>
        /\ ret.raised = "none"
        /\ \A r \in Rows(call.df) \cup Rows(ret.val) :
              Count(r, ret.val) =
                  IF r["Mode"] = call.mode /\ r["Mode Status"] = call.status
                  THEN Count(r, call.df) ELSE 0
        /\ \A i, j \in 1..Len(ret.val) :
              i < j => \E k, l \in 1..Len(call.df) :
                          k < l /\ call.df[k] = ret.val[i] /\ call.df[l] = ret.val[j]

C5_Witness ==
    /\ ret.done /\ call.fn = "query"
    /\ Len(ret.val) = 1
    /\ \E i \in 1..Len(call.df) :
          call.df[i]["Mode"] = call.mode /\ call.df[i]["Mode Status"] # call.status

\* C10: the coefficient of variation fails with InsufficientDataError when
\* the column has fewer than 2 entries or its mean is zero, and returns no
\* number (0, infinity and nan included) in those cases.
C10_InsufficientDataError ==
    (ret.done /\ call.fn = "variation"
        /\ (Len(call.a) < 2 \/ \A i \in 1..Len(call.a) : call.a[i] = FromInt(0)))
        => (ret.raised = "InsufficientDataError" /\ "val" \notin DOMAIN ret)

Bound(name) == name \in DOMAIN ns

\* C6 as stated: a failure of any step halts the run at that step, so a step
\* after it never runs and nothing computed from it is bound or printed: the
\* merged table exists only if the join's keys were unique on both sides, a
\* ratio column only if no denominator was 0, a coefficient of variation only
\* for two or more rows with a non-zero mean, regression results only for at
\* least as many rows as parameters; and an unreadable file ends the run.
C6_FailureHaltsRun ==
    /\ err # "none" => pc = "halted"
    /\ Bound("brt_df") =>
          UniqueKeys(Obj("brt_vehicle_revenue_hour_df")) /\ UniqueKeys(Obj("bare_brt_opex_df"))
    /\ Bound("lrt_df") =>
          UniqueKeys(Obj("lrt_vehicle_revenue_hour_df")) /\ UniqueKeys(Obj("bare_lrt_opex_df"))
    /\ Bound("rail_economics_df") =>
          UniqueKeys(Obj("rail_df")) /\ UniqueKeys(Obj("bare_lrt_opex_df"))
    /\ \A name \in {"brt_df", "lrt_df"} :
          Bound(name) =>
             \A i \in 1..Len(Obj(name)) :
                "Revenue Hour Cost" \in DOMAIN Obj(name)[i] => Obj(name)[i]["2017 VRH"] # 0
    /\ Bound("national_lrt_variation") =>
          /\ Len(Obj("lrt_df")) >= 2
          /\ IsFinite(ns["national_lrt_variation"])
    /\ Bound("results") => ns["results"].nobs >= Cardinality(ns["results"].params)

\* C8 as stated: the elevated option is 30,249,000 / 173,000 = 174.85 per
\* revenue hour in 2028 dollars, and about 125.86 (to the cent, give or take
\* one) once deflated at 3% over 11 years.
C8_Deflated12586 ==
    Bound("brt_revenue_hour_17_elevated") =>
        /\ stdout[1].value = [kind |-> "num", cents |-> 17485]
        /\ stdout[3].value.cents \in 12585..12587

\* C8 amended: the elevated option is 174.85 per revenue hour in 2028
\* dollars and 126.32 once deflated at 3% over 11 years.
C8_Deflated12632 ==
    /\ Bound("brt_revenue_hour_28_elevated") =>
          /\ stdout[1] = Line("BRT Elevated Option Revenue Hour (2028)",
                              [kind |-> "num", cents |-> 17485])
          /\ ns["brt_revenue_hour_28_elevated"].n * (ElevatedHours2028 \div 1000)
                = ns["brt_revenue_hour_28_elevated"].d * (ElevatedCost2028 \div 1000)
    /\ Bound("brt_revenue_hour_17_elevated") =>
          /\ stdout[3] = Line("BRT Elevated Option Revenue Hour (2017)",
                              [kind |-> "num", cents |-> 12632])
          /\ pc = "load_vrh" => Format2f(ns["brt_revenue_hour_17_elevated"]) = 12632

C8_Witness ==
    /\ pc = "load_vrh"
    /\ Bound("brt_revenue_hour_17_elevated")
    /\ Len(stdout) = 4

\* The names of the kernel that refer to tables.
TableNames ==
    {"vehicle_revenue_hour_df", "opex_df", "service_df",
     "brt_vehicle_revenue_hour_df", "brt_opex_df", "bare_brt_opex_df", "brt_df",
     "lrt_vehicle_revenue_hour_df", "lrt_opex_df", "bare_lrt_opex_df", "lrt_df",
     "peer_lrt_df", "rail_df", "rail_economics_df", "corr_df"}

\* The steps that assign columns, the table each assigns to and the columns.
AssignedColumns ==
    ("derive_brt" :> [df |-> "brt_df", cols |-> {"Revenue Hour Cost"}])
    @@ ("derive_lrt" :> [df |-> "lrt_df", cols |-> {"Revenue Hour Cost"}])
    @@ ("derive_rail" :> [df |-> "rail_df",
                          cols |-> {"Extra Car Revenue Hrs", "Load Factor", "NTD ID"}])
    @@ ("derive_economics" :> [df |-> "rail_economics_df",
                               cols |-> {"Peer", "Train RevHr Opex", "Car RevHr Opex"}])

C11_ScaleInvariant ==
    (call.fn = "variation_scaled" /\ ret.done /\ "scaled" \in DOMAIN ret
        /\ Len(call.a) >= 2 /\ FSum(call.a) # FromInt(0))
        => (ret.scaled = ret.val /\ IsFinite(ret.val))

C11_Witness ==
    /\ call.fn = "variation_scaled" /\ ret.done /\ "scaled" \in DOMAIN ret
    /\ Len(call.a) >= 2
    /\ call.k # FromInt(1)
    /\ ret.val # FromInt(0)
    /\ IsFinite(ret.val)
    /\ ret.scaled = ret.val

Regressed == call.fn = "linear_regression" /\ ret.done

\* the constant and the independent variables of the observations
Design(df) == [r \in 1..Len(df) |-> ("const" :> 1) @@ ("x1" :> df[r]["x1"]) @@ ("x2" :> df[r]["x2"])]

\* the columns of the design are linearly dependent (which fewer rows than
\* columns always gives)
Collinear(df) == Det3(Gram(Design(df), <<"const", "x1", "x2">>)) = 0

NoiseFree(df) == \A r \in 1..Len(df) : df[r]["y"] = 2 * df[r]["x1"] + 5 * df[r]["x2"] + 10

\* C12: when the independent variables with the added intercept column are
\* collinear, or there are fewer rows than parameters, linear_regression
\* fails with SingularMatrixError and returns no coefficients.  (A table
\* without rows is left out: there the model's constructor raises.)
C12_SingularMatrixError ==
    (Regressed /\ call.df # <<>> /\ (Collinear(call.df) \/ Len(call.df) < 3))
        => (ret.raised = "SingularMatrixError" /\ "val" \notin DOMAIN ret)

\* C13: linear_regression is least squares with an intercept added: it
\* returns one coefficient for each independent variable and one for the
\* intercept, and on observations of y = 2 x1 + 5 x2 + 10 without noise the
\* coefficients are 2 and 5, the intercept is 10 and R-squared is 1 (the
\* observations being enough to determine them: not collinear).
C13_RecoversCoefficients ==
    (Regressed /\ ~Collinear(call.df)) =>
        /\ ret.raised = "none"
        /\ DOMAIN ret.val.params = {"const", "x1", "x2"}
        /\ NoiseFree(call.df) =>
              /\ ret.val.params = ("const" :> FromInt(10)) @@ ("x1" :> FromInt(2)) @@ ("x2" :> FromInt(5))
              /\ ret.val.rsquared = FromInt(1)

C13_Witness ==
    /\ Regressed /\ ~Collinear(call.df) /\ NoiseFree(call.df)
    /\ ret.val.params["x1"] = FromInt(2)
    /\ ret.val.params["x2"] = FromInt(5)
    /\ ret.val.params["const"] = FromInt(10)
    /\ ret.val.rsquared = FromInt(1)

Rank(kind) ==
    CHOOSE i \in 1..8 :
        <<"load", "filter", "join", "derive", "aggregate", "compare", "regress", "print">>[i] = kind

\* every name the next statement group reads is bound
NeedsBound == pc # "halted" => Consumes[pc] \subseteq DOMAIN ns

Ended == pc = "done" \/ pc = "halted"

\* one statement group after the other, each once
NextInOrder == pc' = "halted" \/ Position(pc') = Position(pc) + 1

\* within a section of the notebook the kinds follow load, filter, join,
\* derive, aggregate, compare, regress, print
KindsInOrder ==
    (pc' # "halted" /\ SectionOf[pc'] = SectionOf[pc]) => Rank(KindOf[pc']) >= Rank(KindOf[pc])

\* C14 as stated: the steps run strictly in the order load, filter, join,
\* derive, aggregate, compare, regress, print (read here section by section,
\* the notebook having three), each after the previous one has completed and
\* exactly once, no step reads a table not yet produced, and the run always
\* reaches its end.
C14_StrictStepOrder ==
    /\ [][NextInOrder /\ KindsInOrder]_vars
    /\ []NeedsBound
    /\ <>Ended

\* C14 amended: the statement groups run one after another in the order of
\* the notebook's cells, each exactly once; no one reads a name that is not
\* yet bound; and the run always ends, at the last cell or at an exception.
C14_CellOrder ==
    /\ [][NextInOrder]_vars
    /\ []NeedsBound
    /\ <>Ended

C14_Witness ==
    /\ pc = "done" /\ err = "none"
    /\ Bound("brt_df") /\ Bound("lrt_df") /\ Bound("rail_economics_df")
    /\ Bound("results") /\ Bound("calculations")
    /\ Len(Obj("rail_economics_df")) > 0

After(label) == pc # "halted" /\ Position(pc) > Position(label)

DerivedColumns == {"Extra Car Revenue Hrs", "Load Factor", "Train RevHr Opex", "Car RevHr Opex"}

\* C15: every row of the train-service table has extra car revenue hours =
\* vehicle hours - train hours and load factor = vehicle hours / train hours;
\* every row of the joined table has train revenue-hour cost = OPEX / train
\* hours and car revenue-hour cost = OPEX / vehicle hours; and no table read
\* from a file carries any of these fields.
C15_DerivedRailFields ==
    /\ Bound("rail_df") =>
          \A i \in 1..Len(Obj("rail_df")) :
             LET r == Obj("rail_df")[i]
             IN  /\ After("derive_rail") => {"Extra Car Revenue Hrs", "Load Factor"} \subseteq DOMAIN r
                 /\ "Extra Car Revenue Hrs" \in DOMAIN r =>
                        r["Extra Car Revenue Hrs"] = r["Vehicle Revenue Hrs"] - r["Train Revenue Hrs"]
                 /\ "Load Factor" \in DOMAIN r =>
                        r["Load Factor"] = TrueDiv(r["Vehicle Revenue Hrs"], r["Train Revenue Hrs"])
    /\ Bound("rail_economics_df") =>
          \A i \in 1..Len(Obj("rail_economics_df")) :
             LET r == Obj("rail_economics_df")[i]
             IN  /\ After("derive_economics") =>
                        {"Train RevHr Opex", "Car RevHr Opex"} \subseteq DOMAIN r
                 /\ r["Extra Car Revenue Hrs"] = r["Vehicle Revenue Hrs"] - r["Train Revenue Hrs"]
                 /\ r["Load Factor"] = TrueDiv(r["Vehicle Revenue Hrs"], r["Train Revenue Hrs"])
                 /\ "Train RevHr Opex" \in DOMAIN r =>
                        r["Train RevHr Opex"] = TrueDiv(r["2017 OPEX"], r["Train Revenue Hrs"])
                 /\ "Car RevHr Opex" \in DOMAIN r =>
                        r["Car RevHr Opex"] = TrueDiv(r["2017 OPEX"], r["Vehicle Revenue Hrs"])
    /\ \A name \in {"vehicle_revenue_hour_df", "opex_df", "service_df"} :
          Bound(name) => \A i \in 1..Len(Obj(name)) : DOMAIN Obj(name)[i] \cap DerivedColumns = {}

C15_Witness ==
    /\ After("derive_economics")
    /\ Len(Obj("rail_economics_df")) > 0
    /\ Obj("rail_economics_df")[1]["Train RevHr Opex"] = TrueDiv(MaxNum, 1)
    /\ Obj("rail_economics_df")[1]["Car RevHr Opex"] = TrueDiv(MaxNum, MaxHours)
    /\ Obj("rail_economics_df")[1]["Load Factor"] = TrueDiv(MaxHours, 1)
    /\ Obj("rail_economics_df")[1]["Extra Car Revenue Hrs"] = MaxHours - 1

\* x < y on finite values
FloatLess(x, y) == x.n * y.d < y.n * x.d

\* C16: in the cost table the flat rate prices a train of n cars at
\* 284.15 * n and the scale-aware method at 511.90 + 117.56 * (n - 1), for
\* n = 1, 2, 3; the flat rate is below the scale-aware cost for 1 car and
\* above it for 3 cars.
C16_CostTable ==
    Bound("calculations") =>
        LET table == ns["calculations"]
        IN  /\ Len(table) = 3
            /\ \A n \in 1..3 :
                  /\ table[n]["Configuration"] = n
                  /\ table[n]["Project Connect"] = TrueDiv(28415 * n, 100)
                  /\ table[n]["Informatx"] = TrueDiv(51190 + 11756 * (n - 1), 100)
            /\ FloatLess(table[1]["Project Connect"], table[1]["Informatx"])
            /\ FloatLess(table[3]["Informatx"], table[3]["Project Connect"])

C16_Witness ==
    /\ pc = "done"
    /\ Bound("calculations")
    /\ ns["calculations"][3]["Project Connect"] = TrueDiv(85245, 100)
    /\ ns["calculations"][3]["Informatx"] = TrueDiv(74702, 100)
    /\ ns["calculations"][1]["Informatx"] = TrueDiv(51190, 100)

\* no two rows of the table have the same (agency, service, mode)
UniqueIdentity(table, service) ==
    \A i, j \in 1..Len(table) :
        (/\ table[i]["NTD ID"] = table[j]["NTD ID"]
         /\ table[i][service] = table[j][service]
         /\ table[i]["Mode"] = table[j]["Mode"]) => i = j

InputsUnique ==
    /\ Bound("vehicle_revenue_hour_df") => UniqueIdentity(Obj("vehicle_revenue_hour_df"), "Service")
    /\ Bound("opex_df") => UniqueIdentity(Obj("opex_df"), "Service")
    /\ Bound("service_df") => UniqueIdentity(Obj("service_df"), "Type of Service")

\* the joined table pairs each row of left with at most one row of the
\* expenses of the one mode, all of them operating
JoinedWithinMode(joined, left, expenses, bare, mode) ==
    (Bound(joined) /\ pc # "halted") =>
        /\ Len(Obj(joined)) <= Len(Obj(left))
        /\ \A i \in 1..Len(Obj(left)) :
              Cardinality({j \in 1..Len(Obj(joined)) :
                  KeyOf(Obj(joined)[j], JoinKeys) = KeyOf(Obj(left)[i], JoinKeys)}) <= 1
        /\ \A i \in 1..Len(Obj(left)) : Obj(left)[i]["Mode"] = mode
        /\ Len(Obj(bare)) = Len(Obj(expenses))
        /\ \A i \in 1..Len(Obj(expenses)) :
              /\ Obj(expenses)[i]["Mode"] = mode
              /\ Obj(expenses)[i]["Mode Status"] = "Operating"
              /\ Obj(bare)[i] = [c \in {"NTD ID", "Service", "2017 OPEX"} |-> Obj(expenses)[i][c]]
        /\ \A j \in 1..Len(Obj(joined)) :
              /\ Obj(joined)[j]["Mode"] = mode
              /\ \E i \in 1..Len(Obj(bare)) :
                    /\ KeyOf(Obj(bare)[i], JoinKeys) = KeyOf(Obj(joined)[j], JoinKeys)
                    /\ Obj(bare)[i]["2017 OPEX"] = Obj(joined)[j]["2017 OPEX"]

\* C17: the joins match on (NTD ID, Service) only and the expense side has no
\* mode column; when no input table repeats an (agency, service, mode), every
\* joined table has at most one row for each row of its left side, pairs it
\* only with an expense row of the same mode, and every row of the rail
\* economics table matches an operating expense row.
C17_JoinsWithinMode ==
    /\ JoinKeys = {"NTD ID", "Service"}
    /\ InputsUnique =>
          /\ JoinedWithinMode("brt_df", "brt_vehicle_revenue_hour_df", "brt_opex_df",
                              "bare_brt_opex_df", "RB")
          /\ JoinedWithinMode("lrt_df", "lrt_vehicle_revenue_hour_df", "lrt_opex_df",
                              "bare_lrt_opex_df", "LR")
          /\ JoinedWithinMode("rail_economics_df", "rail_df", "lrt_opex_df",
                              "bare_lrt_opex_df", "LR")

C17_Witness ==
    /\ pc = "done"
    /\ InputsUnique
    /\ Len(Obj("opex_df")) = 2
    /\ Obj("opex_df")[1]["Mode"] # Obj("opex_df")[2]["Mode"]
    /\ KeyOf(Obj("opex_df")[1], JoinKeys) = KeyOf(Obj("opex_df")[2], JoinKeys)
    /\ Len(Obj("brt_df")) = 1
    /\ Len(Obj("lrt_df")) = 1
    /\ Len(Obj("rail_economics_df")) = 1

PositiveDenominators(t) == \A i \in 1..Len(t) : t[i]["2017 VRH"] > 0

\* C18: on a non-empty table with positive denominators the weighted average
\* is at least the smallest and at most the largest per-row ratio, and it is
\* the common ratio when all rows have the same one.
C18_BetweenMinAndMax ==
    (Averaged /\ PositiveDenominators(call.df)) =>
        /\ IsFinite(ret.val)
        /\ \E i \in 1..Len(call.df) : FloatLeq(RatioOf(call.df[i]), ret.val)
        /\ \E i \in 1..Len(call.df) : FloatLeq(ret.val, RatioOf(call.df[i]))
        /\ (\A i \in 1..Len(call.df) : RatioOf(call.df[i]) = RatioOf(call.df[1]))
              => ret.val = RatioOf(call.df[1])

C18_Witness ==
    /\ Averaged /\ PositiveDenominators(call.df)
    /\ Len(call.df) = 3
    /\ RatiosAllDiffer(call.df)
    /\ \E i \in 1..3 : FloatLess(RatioOf(call.df[i]), ret.val)
    /\ \E i \in 1..3 : FloatLess(ret.val, RatioOf(call.df[i]))
    /\ ret.val # MeanOfRatios(call.df, "2017 OPEX", "2017 VRH")

====
